---- MODULE Spec2Model ----
(***************************************************************************)
(* Model of hypervisor/arch/x86/guest/vm.c: the VM lifecycle state machine *)
(* (create_vm, start_vm, pause_vm, reset_vm, shutdown_vm,                  *)
(* resume_vm_from_s3), the vLAPIC aggregate state and the carving of the   *)
(* service VM's e820 table.                                                *)
(***************************************************************************)
EXTENDS Integers, Sequences, FiniteSets, TLC

\* Largest number of vCPUs a VM configuration asks for (vcpu_num).
MaxVcpus == 2
\* Iterations of the offline wait loop before its timeout expires.
WaitBound == 2
\* Lifecycle calls issued in the runs with uncoordinated callers.
MaxConcCalls == 4
\* Physical addresses are 0 .. MemTop.
MemTop == 4
\* Largest number of entries of the platform's e820 table.
MaxE820 == 2
\* Capacity of the table sos_ve820 (E820_MAX_ENTRIES).
MaxSosE820 == 2
\* Largest number of pre-launched VMs of the board.
MaxPre == 2
\* Largest number of EPC sections of the platform (MAX_EPC_SECTIONS).
MaxEpc == 1
\* Number of VM configurations (CONFIG_MAX_VM_NUM).
MaxVms == 3
\* Shutdown-VM requests posted, and polls made, in a run.
MaxReqs == 3
MaxPolls == 3

VARIABLES
    vm_state,        \* vm->state
    guest_flags,     \* vm_config->guest_flags, the flags the lifecycle reads
    vcpus,           \* vm->hw.vcpu_array[0 .. created_vcpus-1]
    vlapic_state,    \* vm->arch_vm.vlapic_state
    sworld_active,   \* vm->sworld_control.flag.active
    owned,           \* resources the VM holds (ptdev entries, iommu domain, EPT)
    need_offline,    \* physical cores whose offline request flag is set
    pcpu_active,     \* physical cores that are online
    pc,              \* per physical core: position inside a lifecycle call
    loc,             \* per physical core: locals of the call in progress
    serialized,      \* TRUE: callers issue one lifecycle call at a time
    calls_left,      \* lifecycle calls the callers still issue (counted for uncoordinated callers)
    board,           \* platform e820 table, hypervisor range, pre-launched VMs' ranges
    sos_ve820,       \* the table sos_ve820[]
    e820_entry_num,  \* vm->e820_entry_num of the service VM
    sos_mem_size,    \* sos_vm_config->memory.size
    carve_pc,        \* position inside create_sos_vm_e820
    carve_vm_id,     \* vm_id of the loop of lines 302-310
    epc_secs,        \* get_phys_epc(): the platform's EPC sections
    ept,             \* the service VM's EPT: the memory type each address is mapped with
    order_pc,        \* position of the two-order carving
    order_in,        \* its table and its two ranges
    order_ab,        \* the table carved for range a, then b
    order_ba,        \* the table carved for range b, then a
    vm_configs,      \* get_vm_config(vm_id): load_order and the core of the boot vCPU
    launch_pc,       \* per physical core: vm_id and position inside launch_vms
    creators,        \* per vm_id: the cores that ran prepare_vm for it, in order
    vm_lock,         \* vm->vm_lock: the core holding it, or Free
    vl_scan,         \* per core: local vlapic_state of update_vm_vlapic_state
    pcpu_flag,       \* per_cpu(pcpu_flag, pcpu_id): the bits set in it
    req_pc,          \* per core: its position inside make_shutdown_vm_request
    ipis,            \* per core: VECTOR_NOTIFY_VCPU signals sent to it
    posted,          \* per core: requests posted to it since one was last consumed
    polled,          \* the last call of need_shutdown_vm: its argument and its result
    reqs_left,       \* requests still to be posted
    polls_left       \* polls still to be made

vmvars == <<vm_state, guest_flags, vcpus, vlapic_state, sworld_active, owned,
            need_offline, pcpu_active, pc, loc, serialized, calls_left>>
e820vars == <<board, sos_ve820, e820_entry_num, sos_mem_size, carve_pc, carve_vm_id,
              epc_secs, ept>>
ordvars == <<order_pc, order_in, order_ab, order_ba>>
\* What the lifecycle functions leave alone, and what the carving does.
launchvars == <<vm_configs, launch_pc, creators>>
lockvars == <<vm_lock, vl_scan>>
reqvars == <<pcpu_flag, req_pc, ipis, posted, polled, reqs_left, polls_left>>
not_lock_vars == <<e820vars, ordvars, launchvars, reqvars>>
not_vm_vars == <<not_lock_vars, lockvars>>
not_e820_vars == <<vmvars, ordvars, launchvars, lockvars, reqvars>>
not_req_vars == <<vmvars, e820vars, ordvars, launchvars, lockvars>>
vars == <<vmvars, e820vars, ordvars, launchvars, lockvars, reqvars>>

VmStates == {"VM_POWERED_OFF", "VM_CREATED", "VM_STARTED", "VM_POWERING_OFF", "VM_PAUSED"}
VcpuStates == {"VCPU_INIT", "VCPU_RUNNING", "VCPU_ZOMBIE", "VCPU_OFFLINE"}
LapicModes == {"DISABLED", "XAPIC", "X2APIC"}
VlapicStates == {"VM_VLAPIC_DISABLED", "VM_VLAPIC_XAPIC", "VM_VLAPIC_X2APIC", "VM_VLAPIC_TRANSITION"}
\* vlapic_state of a zeroed descriptor: enumerator 0 of vm_vlapic_state, whichever it is
VlapicZero == "zeroed"
GuestFlags == {"GUEST_FLAG_RT", "GUEST_FLAG_LAPIC_PASSTHROUGH"}
Resources == {"ptdev", "iommu", "ept"}

\* Physical cores: core 0 runs no vCPU of the VM, vCPU k is pinned to core k.
PCPUs == 0 .. MaxVcpus
\* The cores lifecycle calls are issued on: core 0 and the core of the boot vCPU.
Callers == {0, 1}
pcpu_id(k) == k

NoLoc == [op |-> "none", i |-> 0, mask |-> {}, ret |-> "none", timeout |-> 0,
          start_failed |-> FALSE, waited |-> FALSE, entry_state |-> "none", entry_rt |-> FALSE]

----------------------------------------------------------------------------
(* Predicates of vm.c *)

is_rt_vm == "GUEST_FLAG_RT" \in guest_flags
is_lapic_pt_configured == "GUEST_FLAG_LAPIC_PASSTHROUGH" \in guest_flags

(* vCPU primitives (vcpu.c) *)
prepare_vcpu(pt) == [state |-> "VCPU_INIT", pt |-> pt, mode |-> "XAPIC"]
reset_vcpu(v) == [v EXCEPT !.state = "VCPU_INIT", !.mode = "XAPIC"]
offline_vcpu(v) == [v EXCEPT !.state = "VCPU_OFFLINE"]
pause_vcpu(v, new_state) == [v EXCEPT !.state = new_state]
schedule_vcpu(v) == [v EXCEPT !.state = "VCPU_RUNNING"]
is_lapic_pt_enabled(v) == v.pt

foreach_vcpu == DOMAIN vcpus
BOOT_CPU_ID == 0
\* vcpu_array[vid] is element vid + 1 of the sequence vcpus
vcpu_from_vid(vid) == vid + 1

----------------------------------------------------------------------------
\* The descriptor of the VM is zeroed, every core is online and idle.
InitVm ==
    /\ vm_state = "VM_POWERED_OFF"
    /\ guest_flags = {}
    /\ vcpus = << >>
    /\ vlapic_state = VlapicZero
    /\ sworld_active = FALSE
    /\ owned = {}
    /\ need_offline = {}
    /\ pcpu_active = PCPUs
    /\ pc = [c \in PCPUs |-> "idle"]
    /\ loc = [c \in PCPUs |-> NoLoc]
    /\ calls_left = MaxConcCalls

\* A released spinlock.
Free == -1

\* No request is posted, none is being posted, none will be.
InitNoReq ==
    /\ pcpu_flag = [p \in PCPUs |-> {}]
    /\ req_pc = [p \in PCPUs |-> [at |-> "idle", pcpu_id |-> 0]]
    /\ ipis = [p \in PCPUs |-> 0]
    /\ posted = [p \in PCPUs |-> 0]
    /\ polled = [pcpu_id |-> 0, ret |-> FALSE]
    /\ reqs_left = 0
    /\ polls_left = 0

\* The lock of the zeroed descriptor is free, no core is in update_vm_vlapic_state.
InitNoLock ==
    /\ vm_lock = Free
    /\ vl_scan = [p \in PCPUs |-> "none"]

\* No core is in launch_vms.
InitNoLaunch ==
    /\ InitNoLock
    /\ InitNoReq
    /\ vm_configs = << >>
    /\ launch_pc = [p \in PCPUs |-> [vm_id |-> 0, at |-> "off"]]
    /\ creators = << >>

\* No table is being carved in two orders.
InitNoOrder ==
    /\ InitNoLaunch
    /\ order_pc = "off"
    /\ order_in = << >>
    /\ order_ab = << >>
    /\ order_ba = << >>

\* The service VM's table is not being carved.
InitNoCarving ==
    /\ board = [e820 |-> << >>, hv_start |-> 0, hv_size |-> 0, pre |-> << >>]
    /\ sos_ve820 = << >>
    /\ e820_entry_num = 0
    /\ sos_mem_size = 0
    /\ carve_pc = "off"
    /\ carve_vm_id = 0
    /\ epc_secs = << >>
    /\ ept = [a \in 0 .. MemTop - 1 |-> "none"]
    /\ InitNoOrder

Init ==
    /\ InitVm
    /\ serialized = TRUE
    /\ InitNoCarving

\* Only uncoordinated callers are limited in the calls they issue.
Spend == IF serialized THEN calls_left ELSE calls_left - 1

\* No call is at its return: a return is observed before anything else moves.
NoRet == \A d \in PCPUs : pc[d] # "ret"

\* A core may enter a lifecycle call.
CanCall(c) ==
    /\ c \in Callers
    /\ calls_left # 0
    /\ NoRet
    /\ pc[c] = "idle"
    /\ c \in pcpu_active
    /\ serialized => \A d \in PCPUs : pc[d] = "idle"

Enter(c, op) == [loc EXCEPT ![c] = [NoLoc EXCEPT !.op = op,
                                       !.entry_state = vm_state,
                                       !.entry_rt = is_rt_vm]]

\* The call returns to its caller.
Return(c) ==
    /\ pc[c] = "ret"
    /\ pc' = [pc EXCEPT ![c] = "idle"]
    /\ loc' = [loc EXCEPT ![c] = NoLoc]
    /\ UNCHANGED <<vm_state, guest_flags, vcpus, vlapic_state, sworld_active, owned,
                   need_offline, pcpu_active, serialized, calls_left, not_vm_vars>>

----------------------------------------------------------------------------
(* pause_vm *)

\* pause_vm without the test of is_rt_vm.
pause_vm_ignores_rt == vm_state # "VM_PAUSED"

\* The conditions under which pause_vm pauses the vCPUs and sets VM_PAUSED.
pause_vm_takes_effect ==
    /\ vm_state # "VM_PAUSED"
    /\ is_rt_vm => vm_state \in {"VM_POWERING_OFF", "VM_CREATED"}

\* pause_vm pausing the boot vCPU alone.
pause_vm_vcpus_bsp_only ==
    IF pause_vm_takes_effect
    THEN [k \in foreach_vcpu |-> IF k = vcpu_from_vid(BOOT_CPU_ID)
                                 THEN pause_vcpu(vcpus[k], "VCPU_ZOMBIE") ELSE vcpus[k]]
    ELSE vcpus

pause_vm_vcpus ==
    IF pause_vm_takes_effect
    THEN [k \in foreach_vcpu |-> pause_vcpu(vcpus[k], "VCPU_ZOMBIE")]
    ELSE vcpus

pause_vm_state == IF pause_vm_takes_effect THEN "VM_PAUSED" ELSE vm_state

pause_vm(c) ==
    /\ CanCall(c)
    /\ calls_left' = Spend
    /\ vcpus' = pause_vm_vcpus
    /\ vm_state' = pause_vm_state
    /\ pc' = [pc EXCEPT ![c] = "ret"]
    /\ loc' = [Enter(c, "pause_vm") EXCEPT ![c].ret = "void"]
    /\ UNCHANGED <<guest_flags, vlapic_state, sworld_active, owned,
                   need_offline, pcpu_active, serialized, not_vm_vars>>

----------------------------------------------------------------------------
(* create_vm *)

\* State left by create_vm: VM_CREATED once set_vcpuid_entries succeeded,
\* else what the memset of the descriptor left.
create_vm_state(early_fail) == IF early_fail THEN "VM_POWERED_OFF" ELSE "VM_CREATED"

\* The vCPUs created before prepare_vcpu first fails (fail_at = 0: none fails).
create_vm_vcpus(pts, fail_at, early_fail) ==
    IF early_fail THEN << >>
    ELSE IF fail_at = 0 THEN [k \in 1 .. Len(pts) |-> prepare_vcpu(pts[k])]
    ELSE [k \in 1 .. (fail_at - 1) |-> prepare_vcpu(pts[k])]

create_vm_status(fail_at, early_fail) ==
    IF early_fail \/ fail_at # 0 THEN "-1" ELSE "0"

\* i when the loop of lines 547-553 is left (0 when it is not entered).
create_vm_loop(n, fail_at, early_fail) ==
    IF early_fail THEN 0
    ELSE IF fail_at = 0 THEN n
    ELSE fail_at - 1

create_vm(c) ==
    /\ CanCall(c)
    /\ calls_left' = Spend
    /\ vm_state = "VM_POWERED_OFF"
    /\ \E flags \in SUBSET GuestFlags, n \in 1 .. MaxVcpus, early_fail \in BOOLEAN :
       \E pts \in [1 .. n -> BOOLEAN], fail_at \in 0 .. n :
          /\ \A k \in 1 .. n : pts[k] => "GUEST_FLAG_LAPIC_PASSTHROUGH" \in flags
          /\ guest_flags' = flags
          /\ vcpus' = create_vm_vcpus(pts, fail_at, early_fail)
          /\ vm_state' = create_vm_state(early_fail)
          /\ vlapic_state' = IF early_fail THEN VlapicZero ELSE "VM_VLAPIC_XAPIC"
          /\ owned' = IF early_fail THEN {} ELSE Resources
          /\ loc' = [Enter(c, "create_vm") EXCEPT
                        ![c].ret = create_vm_status(fail_at, early_fail),
                        ![c].i = create_vm_loop(n, fail_at, early_fail)]
    /\ sworld_active' = FALSE
    /\ vm_lock' = Free
    /\ pc' = [pc EXCEPT ![c] = "ret"]
    /\ UNCHANGED <<need_offline, pcpu_active, serialized, vl_scan, not_lock_vars>>

----------------------------------------------------------------------------
(* start_vm, resume_vm_from_s3 *)

schedule_bsp(vs) ==
    IF vcpu_from_vid(BOOT_CPU_ID) \in DOMAIN vs
    THEN [vs EXCEPT ![vcpu_from_vid(BOOT_CPU_ID)] = schedule_vcpu(@)]
    ELSE vs

start_vm_state == "VM_STARTED"

start_vm(c) ==
    /\ CanCall(c)
    /\ calls_left' = Spend
    /\ vm_state' = start_vm_state
    /\ vcpus' = schedule_bsp(vcpus)
    /\ pc' = [pc EXCEPT ![c] = "ret"]
    /\ loc' = [Enter(c, "start_vm") EXCEPT ![c].ret = "void"]
    /\ UNCHANGED <<guest_flags, vlapic_state, sworld_active, owned,
                   need_offline, pcpu_active, serialized, not_vm_vars>>

resume_vm_from_s3_state == "VM_STARTED"

resume_vm_from_s3(c) ==
    /\ CanCall(c)
    /\ calls_left' = Spend
    /\ vcpu_from_vid(BOOT_CPU_ID) \in DOMAIN vcpus
    /\ vm_state' = resume_vm_from_s3_state
    /\ vcpus' = schedule_bsp([vcpus EXCEPT ![vcpu_from_vid(BOOT_CPU_ID)] = reset_vcpu(@)])
    /\ pc' = [pc EXCEPT ![c] = "ret"]
    /\ loc' = [Enter(c, "resume_vm_from_s3") EXCEPT ![c].ret = "void"]
    /\ UNCHANGED <<guest_flags, vlapic_state, sworld_active, owned,
                   need_offline, pcpu_active, serialized, not_vm_vars>>

\* prepare_vm without its test of err.
prepare_vm_starts_always(err) == TRUE

\* Line 748.
prepare_vm_starts(err) == err = "0"

\* prepare_vm(vm_id, vm_config), line 746: create_vm.
prepare_vm_call(c) ==
    /\ CanCall(c)
    /\ calls_left' = Spend
    /\ vm_state = "VM_POWERED_OFF"
    /\ \E flags \in SUBSET GuestFlags, n \in 1 .. MaxVcpus, early_fail \in BOOLEAN :
       \E pts \in [1 .. n -> BOOLEAN], fail_at \in 0 .. n :
          /\ \A k \in 1 .. n : pts[k] => "GUEST_FLAG_LAPIC_PASSTHROUGH" \in flags
          /\ guest_flags' = flags
          /\ vcpus' = create_vm_vcpus(pts, fail_at, early_fail)
          /\ vm_state' = create_vm_state(early_fail)
          /\ vlapic_state' = IF early_fail THEN VlapicZero ELSE "VM_VLAPIC_XAPIC"
          /\ owned' = IF early_fail THEN {} ELSE Resources
          /\ loc' = [Enter(c, "prepare_vm") EXCEPT
                        ![c].ret = create_vm_status(fail_at, early_fail),
                        ![c].i = create_vm_loop(n, fail_at, early_fail)]
    /\ sworld_active' = FALSE
    /\ vm_lock' = Free
    /\ pc' = [pc EXCEPT ![c] = "pv_created"]
    /\ UNCHANGED <<need_offline, pcpu_active, serialized, vl_scan, not_lock_vars>>

\* prepare_vm, lines 748-759: start_vm if create_vm returned 0.
prepare_vm_start(c) ==
    /\ NoRet
    /\ pc[c] = "pv_created"
    /\ IF prepare_vm_starts(loc[c].ret)
       THEN /\ vm_state' = start_vm_state
            /\ vcpus' = schedule_bsp(vcpus)
       ELSE UNCHANGED <<vm_state, vcpus>>
    /\ pc' = [pc EXCEPT ![c] = "ret"]
    /\ UNCHANGED <<guest_flags, vlapic_state, sworld_active, owned, loc,
                   need_offline, pcpu_active, serialized, calls_left, not_vm_vars>>

----------------------------------------------------------------------------
(* reset_vm *)

\* reset_vm without the test of the state.
reset_vm_always == TRUE

reset_vm_allowed == vm_state = "VM_PAUSED"

reset_vm_vlapic_state == "VM_VLAPIC_XAPIC"

reset_vm(c) ==
    /\ CanCall(c)
    /\ calls_left' = Spend
    /\ IF reset_vm_allowed
       THEN /\ vcpus' = [k \in foreach_vcpu |-> reset_vcpu(vcpus[k])]
            /\ vlapic_state' = reset_vm_vlapic_state
            /\ sworld_active' = FALSE
            /\ vm_state' = "VM_CREATED"
            /\ loc' = [Enter(c, "reset_vm") EXCEPT ![c].ret = "0"]
       ELSE /\ UNCHANGED <<vcpus, vlapic_state, sworld_active, vm_state>>
            /\ loc' = [Enter(c, "reset_vm") EXCEPT ![c].ret = "-1"]
    /\ pc' = [pc EXCEPT ![c] = "ret"]
    /\ UNCHANGED <<guest_flags, owned, need_offline, pcpu_active, serialized, not_vm_vars>>

----------------------------------------------------------------------------
(* shutdown_vm, one action per step of its body *)

\* Line 570: pause_vm(vm), then the test of line 573 is next.
shutdown_vm_call(c) ==
    /\ CanCall(c)
    /\ calls_left' = Spend
    /\ vcpus' = pause_vm_vcpus
    /\ vm_state' = pause_vm_state
    /\ pc' = [pc EXCEPT ![c] = "sd_check"]
    /\ loc' = [Enter(c, "shutdown_vm") EXCEPT ![c].ret = "0"]
    /\ UNCHANGED <<guest_flags, vlapic_state, sworld_active, owned,
                   need_offline, pcpu_active, serialized, not_vm_vars>>

\* shutdown_vm without the test of line 573.
shutdown_vm_always == TRUE

shutdown_vm_allowed == vm_state = "VM_PAUSED"

\* shutdown_vm releasing the pass-through entries before it takes the vCPUs offline.
shutdown_vm_stages_release_first ==
    <<"sd_ptdev", "sd_vcpu", "sd_wait", "sd_start", "sd_cleanup", "sd_iommu", "sd_ept">>

\* The order of the steps of lines 576-610.
shutdown_vm_stages ==
    <<"sd_vcpu", "sd_wait", "sd_start", "sd_cleanup", "sd_ptdev", "sd_iommu", "sd_ept">>

stage_after(st) ==
    LET j == CHOOSE j \in 1 .. Len(shutdown_vm_stages) : shutdown_vm_stages[j] = st
    IN IF j = Len(shutdown_vm_stages) THEN "ret" ELSE shutdown_vm_stages[j + 1]

\* Lines 573-574 and 613-615.
shutdown_vm_check(c) ==
    /\ pc[c] = "sd_check"
    /\ IF shutdown_vm_allowed
       THEN /\ vm_state' = "VM_POWERED_OFF"
            /\ pc' = [pc EXCEPT ![c] = shutdown_vm_stages[1]]
            /\ loc' = loc
       ELSE /\ vm_state' = vm_state
            /\ pc' = [pc EXCEPT ![c] = "ret"]
            /\ loc' = [loc EXCEPT ![c].ret = "-EINVAL"]
    /\ UNCHANGED <<guest_flags, vcpus, vlapic_state, sworld_active, owned,
                   need_offline, pcpu_active, serialized, calls_left, not_vm_vars>>

\* The loop marking the core of every vCPU.
shutdown_vm_marks_all(k) == {pcpu_id(k)}

\* The cores one iteration of the loop of lines 576-584 marks for vCPU k.
shutdown_vm_marks(k) == IF is_lapic_pt_enabled(vcpus[k]) THEN {pcpu_id(k)} ELSE {}

\* One iteration of the loop of lines 576-584, or its exit.
shutdown_vm_vcpu(c) ==
    /\ pc[c] = "sd_vcpu"
    /\ IF loc[c].i < Len(vcpus)
       THEN LET k == loc[c].i + 1 IN
            /\ vcpus' = [vcpus EXCEPT ![k] = offline_vcpu(reset_vcpu(@))]
            /\ need_offline' = need_offline \cup shutdown_vm_marks(k)
            /\ loc' = [loc EXCEPT ![c].i = k,
                                  ![c].mask = @ \cup shutdown_vm_marks(k)]
            /\ pc' = pc
       ELSE /\ UNCHANGED <<vcpus, need_offline>>
            /\ loc' = [loc EXCEPT ![c].timeout = WaitBound]
            /\ pc' = [pc EXCEPT ![c] = stage_after("sd_vcpu")]
    /\ UNCHANGED <<vm_state, guest_flags, vlapic_state, sworld_active, owned,
                   pcpu_active, serialized, calls_left, not_vm_vars>>

\* wait_pcpus_offline without its timeout.
wait_pcpus_offline_no_timeout(mask, timeout) == mask \cap pcpu_active # {}

\* wait_pcpus_offline keeps polling: a marked core is still online and the
\* timeout has not expired. The timeout is an unsigned counter; its width here
\* is that of the values 0 .. WaitBound.
wait_pcpus_offline_polls(mask, timeout) ==
    /\ mask \cap pcpu_active # {}
    /\ timeout # 0

\* Line 586: one poll of wait_pcpus_offline(mask), or its return.
shutdown_vm_wait(c) ==
    /\ pc[c] = "sd_wait"
    /\ IF wait_pcpus_offline_polls(loc[c].mask, loc[c].timeout)
       THEN /\ loc' = [loc EXCEPT ![c].timeout = (@ - 1) % (WaitBound + 1)]
            /\ pc' = pc
       ELSE /\ loc' = [loc EXCEPT ![c].waited = TRUE]
            /\ pc' = [pc EXCEPT ![c] = stage_after("sd_wait")]
    /\ UNCHANGED <<vm_state, guest_flags, vcpus, vlapic_state, sworld_active, owned,
                   need_offline, pcpu_active, serialized, calls_left, not_vm_vars>>

\* Lines 588-591: start_pcpus(mask) is called only for a lapic-pt VM; the
\* cores it brings up are the remote cores' choice.
shutdown_vm_start(c) ==
    /\ pc[c] = "sd_start"
    /\ IF is_lapic_pt_configured
       THEN \E started \in SUBSET loc[c].mask :
               /\ pcpu_active' = pcpu_active \cup started
               /\ IF loc[c].mask \subseteq pcpu_active'
                  THEN loc' = loc
                  ELSE loc' = [loc EXCEPT ![c].ret = "-ETIMEDOUT",
                                          ![c].start_failed = TRUE]
       ELSE /\ pcpu_active' = pcpu_active
            /\ loc' = loc
    /\ pc' = [pc EXCEPT ![c] = stage_after("sd_start")]
    /\ UNCHANGED <<vm_state, guest_flags, vcpus, vlapic_state, sworld_active, owned,
                   need_offline, serialized, calls_left, not_vm_vars>>

\* Lines 593-602: the DM-owned guest flags are cleared (DM_OWNED_GUEST_FLAG_MASK
\* is any set of the flags), vpci and vuart go.
shutdown_vm_cleanup(c) ==
    /\ pc[c] = "sd_cleanup"
    /\ \E dm_owned_mask \in SUBSET GuestFlags : guest_flags' = guest_flags \ dm_owned_mask
    /\ pc' = [pc EXCEPT ![c] = stage_after("sd_cleanup")]
    /\ UNCHANGED <<vm_state, vcpus, vlapic_state, sworld_active, owned,
                   need_offline, pcpu_active, loc, serialized, calls_left, not_vm_vars>>

\* The value shutdown_vm returns on the path that released the resources.
shutdown_vm_ret(ret) == "0"

\* Lines 604-612: ptdev_release_all_entries, destroy_iommu_domain, destroy_ept.
shutdown_vm_release(c) ==
    /\ \/ /\ pc[c] = "sd_ptdev"
          /\ owned' = owned \ {"ptdev"}
          /\ pc' = [pc EXCEPT ![c] = stage_after("sd_ptdev")]
          /\ loc' = loc
       \/ /\ pc[c] = "sd_iommu"
          /\ owned' = owned \ {"iommu"}
          /\ pc' = [pc EXCEPT ![c] = stage_after("sd_iommu")]
          /\ loc' = loc
       \/ /\ pc[c] = "sd_ept"
          /\ owned' = owned \ {"ept"}
          /\ pc' = [pc EXCEPT ![c] = stage_after("sd_ept")]
          /\ loc' = [loc EXCEPT ![c].ret = shutdown_vm_ret(@)]
    /\ UNCHANGED <<vm_state, guest_flags, vcpus, vlapic_state, sworld_active,
                   need_offline, pcpu_active, serialized, calls_left, not_vm_vars>>

shutdown_vm_step(c) ==
    /\ NoRet
    /\ \/ shutdown_vm_check(c)
       \/ shutdown_vm_vcpu(c)
       \/ shutdown_vm_wait(c)
       \/ shutdown_vm_start(c)
       \/ shutdown_vm_cleanup(c)
       \/ shutdown_vm_release(c)

----------------------------------------------------------------------------
(* update_vm_vlapic_state *)

vcpus_in_x2apic(vs) == Cardinality({k \in DOMAIN vs : vs[k].mode = "X2APIC"})
vcpus_in_xapic(vs) == Cardinality({k \in DOMAIN vs : vs[k].mode = "XAPIC"})

\* The classification without its test for both modes.
update_vm_vlapic_state_no_transition(vs) ==
    IF vcpus_in_x2apic(vs) = 0 /\ vcpus_in_xapic(vs) = 0 THEN "VM_VLAPIC_DISABLED"
    ELSE IF vcpus_in_x2apic(vs) # 0 THEN "VM_VLAPIC_X2APIC"
    ELSE "VM_VLAPIC_XAPIC"

\* The classification of lines 828-852.
update_vm_vlapic_state(vs) ==
    IF vcpus_in_x2apic(vs) = 0 /\ vcpus_in_xapic(vs) = 0 THEN "VM_VLAPIC_DISABLED"
    ELSE IF vcpus_in_x2apic(vs) # 0 /\ vcpus_in_xapic(vs) # 0 THEN "VM_VLAPIC_TRANSITION"
    ELSE IF vcpus_in_x2apic(vs) # 0 THEN "VM_VLAPIC_X2APIC"
    ELSE "VM_VLAPIC_XAPIC"

----------------------------------------------------------------------------
(* What the guest and the other cores do *)

\* A running vCPU switches the mode of its vLAPIC; the switch ends with
\* update_vm_vlapic_state(vm).
vlapic_set_apicbase(k, m) ==
    /\ NoRet
    /\ k \in DOMAIN vcpus
    /\ vcpus[k].state = "VCPU_RUNNING"
    /\ vcpus[k].mode # m
    /\ vcpus' = [vcpus EXCEPT ![k].mode = m]
    /\ vlapic_state' = update_vm_vlapic_state(vcpus')
    /\ UNCHANGED <<vm_state, guest_flags, sworld_active, owned,
                   need_offline, pcpu_active, pc, loc, serialized, calls_left, not_vm_vars>>

\* The boot vCPU of a started VM starts another vCPU.
start_ap(k) ==
    /\ NoRet
    /\ vm_state = "VM_STARTED"
    /\ k \in DOMAIN vcpus
    /\ vcpu_from_vid(BOOT_CPU_ID) \in DOMAIN vcpus
    /\ vcpus[vcpu_from_vid(BOOT_CPU_ID)].state = "VCPU_RUNNING"
    /\ vcpus[k].state = "VCPU_INIT"
    /\ vcpus' = [vcpus EXCEPT ![k] = schedule_vcpu(@)]
    /\ UNCHANGED <<vm_state, guest_flags, vlapic_state, sworld_active, owned,
                   need_offline, pcpu_active, pc, loc, serialized, calls_left, not_vm_vars>>

\* The guest of a started VM brings up its secure world.
init_secure_world ==
    /\ NoRet
    /\ vm_state = "VM_STARTED"
    /\ ~sworld_active
    /\ sworld_active' = TRUE
    /\ UNCHANGED <<vm_state, guest_flags, vcpus, vlapic_state, owned,
                   need_offline, pcpu_active, pc, loc, serialized, calls_left, not_vm_vars>>

\* A started real-time VM powers itself off through its virtual PM1a port.
rt_vm_pm1a_io_write ==
    /\ NoRet
    /\ vm_state = "VM_STARTED"
    /\ is_rt_vm
    /\ vm_state' = "VM_POWERING_OFF"
    /\ UNCHANGED <<guest_flags, vcpus, vlapic_state, sworld_active, owned,
                   need_offline, pcpu_active, pc, loc, serialized, calls_left, not_vm_vars>>

\* A core that was asked to go offline, and is not inside a call, does so.
cpu_dead(p) ==
    /\ NoRet
    /\ p \in need_offline
    /\ p \in pcpu_active
    /\ pc[p] = "idle"
    /\ need_offline' = need_offline \ {p}
    /\ pcpu_active' = pcpu_active \ {p}
    /\ UNCHANGED <<vm_state, guest_flags, vcpus, vlapic_state, sworld_active, owned,
                   pc, loc, serialized, calls_left, not_vm_vars>>

----------------------------------------------------------------------------
Next ==
    \/ \E c \in PCPUs :
          \/ create_vm(c)
          \/ prepare_vm_call(c)
          \/ prepare_vm_start(c)
          \/ start_vm(c)
          \/ pause_vm(c)
          \/ reset_vm(c)
          \/ resume_vm_from_s3(c)
          \/ shutdown_vm_call(c)
          \/ shutdown_vm_step(c)
          \/ Return(c)
          \/ cpu_dead(c)
    \/ \E k \in 1 .. MaxVcpus :
          \/ \E m \in LapicModes : vlapic_set_apicbase(k, m)
          \/ start_ap(k)
    \/ init_secure_world
    \/ rt_vm_pm1a_io_write

\* Callers issue one lifecycle call at a time.
Spec == Init /\ [][Next]_vars

\* Callers on different cores issue lifecycle calls with no coordination.
InitConc ==
    /\ InitVm
    /\ serialized = FALSE
    /\ InitNoCarving

\* The lifecycle calls and the cores' own steps, without the guest's moves.
NextCores ==
    \E c \in PCPUs :
       \/ create_vm(c)
       \/ start_vm(c)
       \/ pause_vm(c)
       \/ reset_vm(c)
       \/ resume_vm_from_s3(c)
       \/ shutdown_vm_call(c)
       \/ shutdown_vm_step(c)
       \/ Return(c)
       \/ cpu_dead(c)

SpecConc == InitConc /\ [][NextCores]_vars

\* A core inside shutdown_vm keeps executing it; nothing is assumed of the
\* other cores or of the guest.
SpecFair ==
    /\ Init
    /\ [][NextCores]_vars
    /\ \A c \in Callers : WF_vars(shutdown_vm_step(c)) /\ WF_vars(Return(c))

----------------------------------------------------------------------------
(* update_vm_vlapic_state on the core of a vCPU, one action per step *)

\* A running vCPU writes the mode of its vLAPIC; update_vm_vlapic_state(vm)
\* is called next on its core.
vlapic_set_apicbase_msr(k, m) ==
    /\ NoRet
    /\ k \in DOMAIN vcpus
    /\ vcpus[k].state = "VCPU_RUNNING"
    /\ vcpus[k].mode # m
    /\ pc[pcpu_id(k)] = "idle"
    /\ vcpus' = [vcpus EXCEPT ![k].mode = m]
    /\ pc' = [pc EXCEPT ![pcpu_id(k)] = "vl_obtain"]
    /\ UNCHANGED <<vm_state, guest_flags, vlapic_state, sworld_active, owned,
                   need_offline, pcpu_active, loc, serialized, calls_left, not_vm_vars>>

\* Line 815: spinlock_obtain(&vm->vm_lock).
update_vm_vlapic_state_obtain(p) ==
    /\ NoRet
    /\ pc[p] = "vl_obtain"
    /\ vm_lock = Free
    /\ vm_lock' = p
    /\ pc' = [pc EXCEPT ![p] = "vl_scan"]
    /\ UNCHANGED <<vm_state, guest_flags, vcpus, vlapic_state, sworld_active, owned,
                   need_offline, pcpu_active, loc, serialized, calls_left,
                   vl_scan, not_lock_vars>>

\* Lines 816-852: the scan of the vCPUs and the classification.
update_vm_vlapic_state_scan(p) ==
    /\ NoRet
    /\ pc[p] = "vl_scan"
    /\ vl_scan' = [vl_scan EXCEPT ![p] = update_vm_vlapic_state(vcpus)]
    /\ pc' = [pc EXCEPT ![p] = "vl_write"]
    /\ UNCHANGED <<vm_state, guest_flags, vcpus, vlapic_state, sworld_active, owned,
                   need_offline, pcpu_active, loc, serialized, calls_left,
                   vm_lock, not_lock_vars>>

\* Lines 854-855: the write of vm->arch_vm.vlapic_state, spinlock_release.
update_vm_vlapic_state_write(p) ==
    /\ NoRet
    /\ pc[p] = "vl_write"
    /\ vlapic_state' = vl_scan[p]
    /\ vl_scan' = [vl_scan EXCEPT ![p] = "none"]
    /\ vm_lock' = Free
    /\ pc' = [pc EXCEPT ![p] = "idle"]
    /\ UNCHANGED <<vm_state, guest_flags, vcpus, sworld_active, owned,
                   need_offline, pcpu_active, loc, serialized, calls_left, not_lock_vars>>

NextVlapic ==
    \/ \E c \in PCPUs :
          \/ create_vm(c)
          \/ start_vm(c)
          \/ pause_vm(c)
          \/ reset_vm(c)
          \/ Return(c)
          \/ update_vm_vlapic_state_obtain(c)
          \/ update_vm_vlapic_state_scan(c)
          \/ update_vm_vlapic_state_write(c)
    \/ \E k \in 1 .. MaxVcpus :
          \/ \E m \in LapicModes : vlapic_set_apicbase_msr(k, m)
          \/ start_ap(k)

\* Uncoordinated lifecycle calls, running vCPUs switching the mode of their
\* vLAPICs.
SpecVlapic == InitConc /\ [][NextVlapic]_vars

----------------------------------------------------------------------------
(* make_shutdown_vm_request, need_shutdown_vm *)

\* bitmap_set_lock(nr, addr): one locked instruction.
bitmap_set_lock(nr, flags) == flags \cup {nr}

\* bitmap_test_and_clear_lock(nr, addr): one locked instruction; the bit as
\* it was, and the flags without it.
bitmap_test_and_clear_lock(nr, flags) == [ret |-> nr \in flags, flags |-> flags \ {nr}]

get_pcpu_id(c) == c

\* make_shutdown_vm_request signalling whatever the target.
make_shutdown_vm_request_sends_always(c, p) == TRUE

\* Line 890.
make_shutdown_vm_request_sends(c, p) == get_pcpu_id(c) # p

InitReq ==
    /\ InitVm
    /\ serialized = TRUE
    /\ board = [e820 |-> << >>, hv_start |-> 0, hv_size |-> 0, pre |-> << >>]
    /\ sos_ve820 = << >>
    /\ e820_entry_num = 0
    /\ sos_mem_size = 0
    /\ carve_pc = "off"
    /\ carve_vm_id = 0
    /\ epc_secs = << >>
    /\ ept = [a \in 0 .. MemTop - 1 |-> "none"]
    /\ order_pc = "off"
    /\ order_in = << >>
    /\ order_ab = << >>
    /\ order_ba = << >>
    /\ vm_configs = << >>
    /\ launch_pc = [p \in PCPUs |-> [vm_id |-> 0, at |-> "off"]]
    /\ creators = << >>
    /\ InitNoLock
    /\ pcpu_flag = [p \in PCPUs |-> {}]
    /\ req_pc = [p \in PCPUs |-> [at |-> "idle", pcpu_id |-> 0]]
    /\ ipis = [p \in PCPUs |-> 0]
    /\ posted = [p \in PCPUs |-> 0]
    /\ polled = [pcpu_id |-> 0, ret |-> FALSE]
    /\ reqs_left = MaxReqs
    /\ polls_left = MaxPolls

\* Line 889, on core c for core p.
make_shutdown_vm_request_set(c, p) ==
    /\ reqs_left # 0
    /\ req_pc[c].at = "idle"
    /\ reqs_left' = reqs_left - 1
    /\ pcpu_flag' = [pcpu_flag EXCEPT ![p] = bitmap_set_lock("NEED_SHUTDOWN_VM", @)]
    /\ posted' = [posted EXCEPT ![p] = @ + 1]
    /\ req_pc' = [req_pc EXCEPT ![c] = [at |-> "ipi", pcpu_id |-> p]]
    /\ UNCHANGED <<ipis, polled, polls_left, not_req_vars>>

\* Lines 890-892.
make_shutdown_vm_request_ipi(c) ==
    /\ req_pc[c].at = "ipi"
    /\ ipis' = IF make_shutdown_vm_request_sends(c, req_pc[c].pcpu_id)
               THEN [ipis EXCEPT ![req_pc[c].pcpu_id] = @ + 1]
               ELSE ipis
    /\ req_pc' = [req_pc EXCEPT ![c] = [at |-> "idle", pcpu_id |-> 0]]
    /\ UNCHANGED <<pcpu_flag, posted, polled, reqs_left, polls_left, not_req_vars>>

\* need_shutdown_vm(p), called on any core.
need_shutdown_vm(p) ==
    /\ polls_left # 0
    /\ polls_left' = polls_left - 1
    /\ LET r == bitmap_test_and_clear_lock("NEED_SHUTDOWN_VM", pcpu_flag[p])
       IN /\ pcpu_flag' = [pcpu_flag EXCEPT ![p] = r.flags]
          /\ polled' = [pcpu_id |-> p, ret |-> r.ret]
          /\ posted' = [posted EXCEPT ![p] = IF r.ret THEN 0 ELSE @]
    /\ UNCHANGED <<req_pc, ipis, reqs_left, not_req_vars>>

NextReq ==
    \E c \in PCPUs :
       \/ \E p \in PCPUs : make_shutdown_vm_request_set(c, p)
       \/ make_shutdown_vm_request_ipi(c)
       \/ need_shutdown_vm(c)

\* Cores post requests and poll with no order among them.
SpecReq == InitReq /\ [][NextReq]_vars

----------------------------------------------------------------------------
(* The service VM's e820 table: filter_mem_from_sos_e820, create_sos_vm_e820 *)

E820Entry(b, l, t) == [baseaddr |-> b, length |-> l, type |-> t]
\* struct e820_entry new_entry = {0}
NoEntry == E820Entry(0, 0, "0")

\* filter_entry that leaves an entry within the range as RAM.
filter_entry_keeps_contained(entry, new_entry, start_pa, end_pa) ==
    LET entry_start == entry.baseaddr
        entry_end == entry.baseaddr + entry.length
    IN IF \/ entry.type # "E820_TYPE_RAM"
          \/ entry_end <= start_pa
          \/ entry_start >= end_pa
       THEN [entry |-> entry, new_entry |-> new_entry]
       ELSE IF entry_start < start_pa /\ entry_end <= end_pa
       THEN [entry |-> [entry EXCEPT !.length = start_pa - entry_start],
             new_entry |-> new_entry]
       ELSE IF entry_start < start_pa /\ entry_end > end_pa
       THEN [entry |-> [entry EXCEPT !.length = start_pa - entry_start],
             new_entry |-> E820Entry(end_pa, entry_end - end_pa, "E820_TYPE_RAM")]
       ELSE IF entry_start >= start_pa /\ entry_start < end_pa /\ entry_end > end_pa
       THEN [entry |-> [entry EXCEPT !.baseaddr = end_pa, !.length = entry_end - end_pa],
             new_entry |-> new_entry]
       ELSE [entry |-> entry, new_entry |-> new_entry]

\* filter_entry whose last case leaves the entry as it is.
filter_entry_keeps_head(entry, new_entry, start_pa, end_pa) ==
    LET entry_start == entry.baseaddr
        entry_end == entry.baseaddr + entry.length
    IN IF \/ entry.type # "E820_TYPE_RAM"
          \/ entry_end <= start_pa
          \/ entry_start >= end_pa
       THEN [entry |-> entry, new_entry |-> new_entry]
       ELSE IF entry_start < start_pa /\ entry_end <= end_pa
       THEN [entry |-> [entry EXCEPT !.length = start_pa - entry_start],
             new_entry |-> new_entry]
       ELSE IF entry_start < start_pa /\ entry_end > end_pa
       THEN [entry |-> [entry EXCEPT !.length = start_pa - entry_start],
             new_entry |-> E820Entry(end_pa, entry_end - end_pa, "E820_TYPE_RAM")]
       ELSE IF entry_start >= start_pa /\ entry_end <= end_pa
       THEN [entry |-> [entry EXCEPT !.type = "E820_TYPE_RESERVED"],
             new_entry |-> new_entry]
       ELSE [entry |-> entry, new_entry |-> new_entry]

\* One iteration of the loop of lines 226-264 on sos_ve820[i].
filter_entry(entry, new_entry, start_pa, end_pa) ==
    LET entry_start == entry.baseaddr
        entry_end == entry.baseaddr + entry.length
    IN IF \/ entry.type # "E820_TYPE_RAM"
          \/ entry_end <= start_pa
          \/ entry_start >= end_pa
       THEN [entry |-> entry, new_entry |-> new_entry]
       ELSE IF entry_start < start_pa /\ entry_end <= end_pa
       THEN [entry |-> [entry EXCEPT !.length = start_pa - entry_start],
             new_entry |-> new_entry]
       ELSE IF entry_start < start_pa /\ entry_end > end_pa
       THEN [entry |-> [entry EXCEPT !.length = start_pa - entry_start],
             new_entry |-> E820Entry(end_pa, entry_end - end_pa, "E820_TYPE_RAM")]
       ELSE IF entry_start >= start_pa /\ entry_end <= end_pa
       THEN [entry |-> [entry EXCEPT !.type = "E820_TYPE_RESERVED"],
             new_entry |-> new_entry]
       ELSE IF entry_start >= start_pa /\ entry_start < end_pa /\ entry_end > end_pa
       THEN [entry |-> [entry EXCEPT !.baseaddr = end_pa, !.length = entry_end - end_pa],
             new_entry |-> new_entry]
       ELSE [entry |-> entry, new_entry |-> new_entry]

\* The loop of lines 226-264 from index i on.
RECURSIVE filter_loop(_, _, _, _, _, _)
filter_loop(tbl, i, entries_count, new_entry, start_pa, end_pa) ==
    IF i > entries_count
    THEN [tbl |-> tbl, new_entry |-> new_entry]
    ELSE LET r == filter_entry(tbl[i], new_entry, start_pa, end_pa)
         IN filter_loop([tbl EXCEPT ![i] = r.entry], i + 1, entries_count,
                        r.new_entry, start_pa, end_pa)

\* sos_ve820[i] = entry, for i within the table or one past its last entry.
put_entry(tbl, i, entry) ==
    IF i <= Len(tbl) THEN [tbl EXCEPT ![i] = entry] ELSE Append(tbl, entry)

\* filter_mem_from_sos_e820 that appends no entry.
filter_mem_from_sos_e820_no_append(tbl, entries_count, start_pa, end_pa) ==
    LET r == filter_loop(tbl, 1, entries_count, NoEntry, start_pa, end_pa)
    IN [tbl |-> r.tbl, count |-> entries_count, fault |-> FALSE]

\* filter_mem_from_sos_e820(vm, start_pa, end_pa): the table and
\* vm->e820_entry_num it leaves; fault: the ASSERT of line 268 fails.
filter_mem_from_sos_e820(tbl, entries_count, start_pa, end_pa) ==
    LET r == filter_loop(tbl, 1, entries_count, NoEntry, start_pa, end_pa)
    IN IF r.new_entry.length > 0
       THEN IF entries_count + 1 <= MaxSosE820
            THEN [tbl |-> put_entry(r.tbl, entries_count + 1, r.new_entry),
                  count |-> entries_count + 1, fault |-> FALSE]
            ELSE [tbl |-> r.tbl, count |-> entries_count, fault |-> TRUE]
       ELSE [tbl |-> r.tbl, count |-> entries_count, fault |-> FALSE]

RECURSIVE ram_length(_, _)
\* Total length of the RAM entries among the first n entries of tbl.
ram_length(tbl, n) ==
    IF n = 0 THEN 0
    ELSE ram_length(tbl, n - 1)
         + (IF tbl[n].type = "E820_TYPE_RAM" THEN tbl[n].length ELSE 0)

\* get_e820_mem_info()->total_mem_size: the RAM of the platform's table.
total_mem_size == ram_length(board.e820, Len(board.e820))

\* Platform tables: entries of positive length, in address order, disjoint.
E820Entries ==
    {E820Entry(b, l, t) : b \in 0 .. MemTop - 1, l \in 1 .. MemTop,
                          t \in {"E820_TYPE_RAM", "E820_TYPE_RESERVED"}}
PlatformE820 ==
    {t \in UNION {[1 .. n -> {e \in E820Entries : e.baseaddr + e.length <= MemTop}]
                  : n \in 1 .. MaxE820} :
        \A i \in 1 .. Len(t) - 1 : t[i].baseaddr + t[i].length <= t[i + 1].baseaddr}

\* Memory of a pre-launched VM: vm_config->memory.start_hpa, .size.
PreMemory ==
    {[start_hpa |-> b, size |-> l] : b \in 0 .. MemTop - 1, l \in 1 .. MemTop}
Boards ==
    {[e820 |-> t, hv_start |-> b, hv_size |-> l, pre |-> p] :
        t \in PlatformE820,
        b \in 0 .. MemTop - 1, l \in 1 .. MemTop,
        p \in UNION {[1 .. n -> {m \in PreMemory : m.start_hpa + m.size <= MemTop}]
                     : n \in 0 .. MaxPre}}

InitE820 ==
    /\ InitVm
    /\ serialized = TRUE
    /\ board \in {b \in Boards : b.hv_start + b.hv_size <= MemTop}
    /\ sos_ve820 = << >>
    /\ e820_entry_num = 0
    /\ sos_mem_size = 0
    /\ carve_pc = "copy"
    /\ carve_vm_id = 0
    /\ epc_secs = << >>
    /\ ept = [a \in 0 .. MemTop - 1 |-> "none"]
    /\ InitNoOrder

\* Lines 292-296: the platform's table is copied to sos_ve820.
create_sos_vm_e820_copy ==
    /\ carve_pc = "copy"
    /\ sos_ve820' = board.e820
    /\ e820_entry_num' = Len(board.e820)
    /\ carve_pc' = "hv"
    /\ UNCHANGED <<board, sos_mem_size, carve_vm_id, epc_secs, ept, not_e820_vars>>

\* sos_vm_config->memory.size with CONFIG_HV_RAM_SIZE not taken off.
sos_size_keeps_hv(total) == total

\* Line 299.
sos_size_without_hv(total) == total - board.hv_size

\* Lines 298-299: the hypervisor's memory is filtered out.
create_sos_vm_e820_hv ==
    /\ carve_pc = "hv"
    /\ LET r == filter_mem_from_sos_e820(sos_ve820, e820_entry_num, board.hv_start,
                                         board.hv_start + board.hv_size)
       IN /\ sos_ve820' = r.tbl
          /\ e820_entry_num' = r.count
          /\ IF r.fault
             THEN carve_pc' = "fault" /\ sos_mem_size' = sos_mem_size
             ELSE carve_pc' = "pre" /\ sos_mem_size' = sos_size_without_hv(total_mem_size)
    /\ UNCHANGED <<board, carve_vm_id, epc_secs, ept, not_e820_vars>>

\* Lines 302-310: one pre-launched VM's memory is filtered out, or the loop ends.
create_sos_vm_e820_pre ==
    /\ carve_pc = "pre"
    /\ IF carve_vm_id < Len(board.pre)
       THEN LET m == board.pre[carve_vm_id + 1]
                r == filter_mem_from_sos_e820(sos_ve820, e820_entry_num, m.start_hpa,
                                              m.start_hpa + m.size)
            IN /\ sos_ve820' = r.tbl
               /\ e820_entry_num' = r.count
               /\ carve_vm_id' = carve_vm_id + 1
               /\ IF r.fault
                  THEN carve_pc' = "fault" /\ sos_mem_size' = sos_mem_size
                  ELSE carve_pc' = "pre" /\ sos_mem_size' = sos_mem_size - m.size
       ELSE /\ carve_pc' = "done"
            /\ UNCHANGED <<sos_ve820, e820_entry_num, carve_vm_id, sos_mem_size>>
    /\ UNCHANGED <<board, epc_secs, ept, not_e820_vars>>

----------------------------------------------------------------------------
(* The service VM's address space: prepare_sos_vm_memmap *)

\* ept_add_mr with gpa = hpa: [base, base + size) is mapped with memory type attr.
ept_add_mr(e, base, size, attr) ==
    [a \in DOMAIN e |-> IF base <= a /\ a < base + size THEN attr ELSE e[a]]
\* ept_modify_mr: the mapped addresses of [base, base + size) get memory type attr.
ept_modify_mr(e, base, size, attr) ==
    [a \in DOMAIN e |-> IF base <= a /\ a < base + size /\ e[a] # "none" THEN attr ELSE e[a]]
\* ept_del_mr: [base, base + size) is unmapped.
ept_del_mr(e, base, size) ==
    [a \in DOMAIN e |-> IF base <= a /\ a < base + size THEN "none" ELSE e[a]]

\* get_e820_mem_info()->mem_bottom, mem_top: the span of the platform's table.
mem_bottom ==
    CHOOSE b \in 0 .. MemTop :
        /\ \E i \in DOMAIN board.e820 : board.e820[i].baseaddr = b
        /\ \A i \in DOMAIN board.e820 : board.e820[i].baseaddr >= b
mem_top ==
    CHOOSE t \in 0 .. MemTop :
        /\ \E i \in DOMAIN board.e820 : board.e820[i].baseaddr + board.e820[i].length = t
        /\ \A i \in DOMAIN board.e820 : board.e820[i].baseaddr + board.e820[i].length <= t

RECURSIVE memmap_ram_wb(_, _, _)
\* Lines 348-353: the RAM entries of the first n entries of tbl become writeback.
memmap_ram_wb(e, tbl, n) ==
    IF n = 0 THEN e
    ELSE LET d == memmap_ram_wb(e, tbl, n - 1)
         IN IF tbl[n].type = "E820_TYPE_RAM"
            THEN ept_modify_mr(d, tbl[n].baseaddr, tbl[n].length, "WB")
            ELSE d

RECURSIVE memmap_del_epc(_, _, _)
\* Lines 366-369: the first n EPC sections are unmapped.
memmap_del_epc(e, secs, n) ==
    IF n = 0 THEN e
    ELSE ept_del_mr(memmap_del_epc(e, secs, n - 1), secs[n].base, secs[n].size)

\* The hypervisor's memory stays mapped.
memmap_keeps_hv(e) == e

\* Lines 374-375: the hypervisor's memory is unmapped.
memmap_del_hv(e) == ept_del_mr(e, board.hv_start, board.hv_size)

RECURSIVE memmap_del_pre(_, _)
\* Lines 377-382: the memory of the first n pre-launched VMs is unmapped.
memmap_del_pre(e, n) ==
    IF n = 0 THEN e
    ELSE ept_del_mr(memmap_del_pre(e, n - 1), board.pre[n].start_hpa, board.pre[n].size)

\* The platform's EPC sections: base and size of each.
EpcSections ==
    UNION {[1 .. n -> {[base |-> b, size |-> l] :
                          b \in 0 .. MemTop - 1, l \in 1 .. MemTop}]
           : n \in 0 .. MaxEpc}

\* prepare_sos_vm_memmap(vm), called by create_vm once the table is carved.
prepare_sos_vm_memmap ==
    /\ carve_pc = "done"
    /\ \E secs \in EpcSections :
          /\ epc_secs' = secs
          /\ ept' = LET uc == ept_add_mr(ept, mem_bottom, mem_top - mem_bottom, "UC")
                        wb == memmap_ram_wb(uc, sos_ve820, e820_entry_num)
                        ne == memmap_del_epc(wb, secs, Len(secs))
                    IN memmap_del_pre(memmap_del_hv(ne), Len(board.pre))
    /\ carve_pc' = "mapped"
    /\ UNCHANGED <<board, sos_ve820, e820_entry_num, sos_mem_size, carve_vm_id, not_e820_vars>>

NextE820 ==
    \/ create_sos_vm_e820_copy
    \/ create_sos_vm_e820_hv
    \/ create_sos_vm_e820_pre
    \/ prepare_sos_vm_memmap

\* create_sos_vm_e820 and prepare_sos_vm_memmap on every board.
SpecE820 == InitE820 /\ [][NextE820]_vars

----------------------------------------------------------------------------
(* Two exclusions in both orders *)

\* Address ranges [start_pa, end_pa) that hold an address.
Ranges ==
    {[start_pa |-> b, end_pa |-> e] : b \in 0 .. MemTop - 1, e \in 1 .. MemTop}

\* filter_two that leaves out the second call.
filter_two_first_only(tbl, x, y) ==
    filter_mem_from_sos_e820(tbl, Len(tbl), x.start_pa, x.end_pa)

\* filter_mem_from_sos_e820 for range x, then for range y, on a table whose
\* entries are all in use.
filter_two(tbl, x, y) ==
    LET r == filter_mem_from_sos_e820(tbl, Len(tbl), x.start_pa, x.end_pa)
    IN IF r.fault
       THEN r
       ELSE filter_mem_from_sos_e820(r.tbl, r.count, y.start_pa, y.end_pa)

\* A platform table and two ranges with no address in common.
InitOrder ==
    /\ InitVm
    /\ serialized = TRUE
    /\ board = [e820 |-> << >>, hv_start |-> 0, hv_size |-> 0, pre |-> << >>]
    /\ sos_ve820 = << >>
    /\ e820_entry_num = 0
    /\ sos_mem_size = 0
    /\ carve_pc = "off"
    /\ carve_vm_id = 0
    /\ epc_secs = << >>
    /\ ept = [a \in 0 .. MemTop - 1 |-> "none"]
    /\ InitNoLaunch
    /\ order_pc = "start"
    /\ order_in \in {[tbl |-> t, a |-> x, b |-> y] :
                        t \in PlatformE820,
                        x \in {r \in Ranges : r.start_pa < r.end_pa},
                        y \in {r \in Ranges : r.start_pa < r.end_pa}}
    /\ order_in.a.end_pa <= order_in.b.start_pa \/ order_in.b.end_pa <= order_in.a.start_pa
    /\ order_ab = << >>
    /\ order_ba = << >>

\* The table is carved for a, then for b.
carve_a_then_b ==
    /\ order_pc = "start"
    /\ order_ab' = filter_two(order_in.tbl, order_in.a, order_in.b)
    /\ order_pc' = "ab"
    /\ UNCHANGED <<order_in, order_ba, vmvars, e820vars, launchvars, lockvars, reqvars>>

\* A fresh copy of the table is carved for b, then for a.
carve_b_then_a ==
    /\ order_pc = "ab"
    /\ order_ba' = filter_two(order_in.tbl, order_in.b, order_in.a)
    /\ order_pc' = "both"
    /\ UNCHANGED <<order_in, order_ab, vmvars, e820vars, launchvars, lockvars, reqvars>>

NextOrder ==
    \/ carve_a_then_b
    \/ carve_b_then_a

\* filter_mem_from_sos_e820 twice, in both orders of its two ranges.
SpecOrder == InitOrder /\ [][NextOrder]_vars

----------------------------------------------------------------------------
(* launch_vms *)

\* The configurations: at most one service VM, at most MaxPre pre-launched
\* VMs, the boot vCPU of each pinned to a core of the platform.
VmConfigs ==
    {cfgs \in [1 .. MaxVms -> [load_order : {"SOS_VM", "PRE_LAUNCHED_VM", "POST_LAUNCHED_VM"},
                               bsp : PCPUs]] :
        /\ Cardinality({i \in 1 .. MaxVms : cfgs[i].load_order = "SOS_VM"}) <= 1
        /\ Cardinality({i \in 1 .. MaxVms : cfgs[i].load_order = "PRE_LAUNCHED_VM"}) <= MaxPre}

\* A board for launch_vms: RAM from 0 to MemTop, the hypervisor at its bottom,
\* one unit of memory for each pre-launched VM above it.
LaunchBoard(cfgs) ==
    LET pre == {i \in 1 .. MaxVms : cfgs[i].load_order = "PRE_LAUNCHED_VM"}
    IN [e820 |-> <<E820Entry(0, MemTop, "E820_TYPE_RAM")>>,
        hv_start |-> 0, hv_size |-> 1,
        pre |-> [k \in 1 .. Cardinality(pre) |-> [start_hpa |-> k, size |-> 1]]]

\* get_vm_bsp_pcpu_id(vm_config)
get_vm_bsp_pcpu_id(cfg) == cfg.bsp

\* launch_vms calling prepare_vm on every core.
launch_vms_creates_anywhere(p, cfg) == TRUE

\* Line 777.
launch_vms_creates(p, cfg) == p = get_vm_bsp_pcpu_id(cfg)

InitLaunch ==
    /\ InitVm
    /\ serialized = TRUE
    /\ vm_configs \in VmConfigs
    /\ board = LaunchBoard(vm_configs)
    /\ sos_ve820 = << >>
    /\ e820_entry_num = 0
    /\ sos_mem_size = 0
    /\ carve_pc = "off"
    /\ carve_vm_id = 0
    /\ epc_secs = << >>
    /\ ept = [a \in 0 .. MemTop - 1 |-> "none"]
    /\ order_pc = "off"
    /\ order_in = << >>
    /\ order_ab = << >>
    /\ order_ba = << >>
    /\ InitNoLock
    /\ InitNoReq
    /\ launch_pc = [p \in PCPUs |-> [vm_id |-> 0, at |-> "loop"]]
    /\ creators = [i \in 1 .. MaxVms |-> << >>]

\* launch_vms(pcpu_id), lines 770-780: one iteration of the loop up to the
\* call of prepare_vm, or the end of the loop. prepare_vm for the service VM
\* begins with create_sos_vm_e820 (line 450).
launch_vms_loop(p) ==
    /\ launch_pc[p].at = "loop"
    /\ LET id == launch_pc[p].vm_id IN
       IF id = MaxVms
       THEN /\ launch_pc' = [launch_pc EXCEPT ![p].at = "done"]
            /\ UNCHANGED <<carve_pc, carve_vm_id>>
       ELSE LET cfg == vm_configs[id + 1] IN
            IF /\ cfg.load_order \in {"SOS_VM", "PRE_LAUNCHED_VM"}
               /\ launch_vms_creates(p, cfg)
            THEN IF cfg.load_order = "SOS_VM"
                 THEN /\ launch_pc' = [launch_pc EXCEPT ![p].at = "carve"]
                      /\ carve_pc' = "copy"
                      /\ carve_vm_id' = 0
                 ELSE /\ launch_pc' = [launch_pc EXCEPT ![p].at = "create"]
                      /\ UNCHANGED <<carve_pc, carve_vm_id>>
            ELSE /\ launch_pc' = [launch_pc EXCEPT ![p].vm_id = id + 1]
                 /\ UNCHANGED <<carve_pc, carve_vm_id>>
    /\ UNCHANGED <<board, sos_ve820, e820_entry_num, sos_mem_size, epc_secs, ept,
                   vm_configs, creators, vmvars, ordvars, lockvars, reqvars>>

\* create_vm of the service VM is past prepare_sos_vm_memmap (line 451).
launch_vms_carved(p) ==
    /\ launch_pc[p].at = "carve"
    /\ carve_pc = "mapped"
    /\ launch_pc' = [launch_pc EXCEPT ![p].at = "create"]
    /\ UNCHANGED <<vm_configs, creators, vmvars, e820vars, ordvars, lockvars, reqvars>>

\* The rest of prepare_vm(vm_id, vm_config), and the next vm_id.
launch_vms_created(p) ==
    /\ launch_pc[p].at = "create"
    /\ creators' = [creators EXCEPT ![launch_pc[p].vm_id + 1] = Append(@, p)]
    /\ launch_pc' = [launch_pc EXCEPT ![p] = [vm_id |-> @.vm_id + 1, at |-> "loop"]]
    /\ UNCHANGED <<vm_configs, vmvars, e820vars, ordvars, lockvars, reqvars>>

NextLaunch ==
    \/ \E p \in PCPUs :
          \/ launch_vms_loop(p)
          \/ launch_vms_carved(p)
          \/ launch_vms_created(p)
    \/ create_sos_vm_e820_copy
    \/ create_sos_vm_e820_hv
    \/ create_sos_vm_e820_pre
    \/ prepare_sos_vm_memmap

\* Every physical core runs launch_vms, with no order among them.
SpecLaunch == InitLaunch /\ [][NextLaunch]_vars

InShutdown(c) == pc[c] \in {"sd_check", "sd_vcpu", "sd_wait", "sd_start",
                            "sd_cleanup", "sd_ptdev", "sd_iommu", "sd_ept"}

\* Core c takes a step of a lifecycle call (its entry included).
Steps(c) == pc'[c] # pc[c] /\ pc[c] # "ret"
\* Core c enters and completes the single-step call op.
Calls(c, op) == pc[c] = "idle" /\ pc'[c] = "ret" /\ loc'[c].op = op
Returned(c, op) == pc[c] = "ret" /\ loc[c].op = op

----------------------------------------------------------------------------
(* C1 *)

DeclaredEdges ==
    { <<"VM_POWERED_OFF", "VM_CREATED">>, <<"VM_CREATED", "VM_STARTED">>,
      <<"VM_STARTED", "VM_PAUSED">>, <<"VM_PAUSED", "VM_POWERING_OFF">>,
      <<"VM_POWERING_OFF", "VM_POWERED_OFF">>, <<"VM_PAUSED", "VM_CREATED">> }

\* C1 as stated: every change of the VM's state made by a lifecycle call
\* follows an edge of the declared machine (with create's PoweredOff->Created).
C1_DeclaredEdgesOnly ==
    [][\A c \in Callers :
          (Steps(c) /\ vm_state' # vm_state) => <<vm_state, vm_state'>> \in DeclaredEdges]_vars

\* C1 as amended: every change of the VM's state made by a lifecycle call is
\* PoweredOff->Created by create_vm, any state->Started by start_vm and
\* resume_vm_from_s3, any state but Paused->Paused by pause_vm and by the pause
\* inside shutdown_vm (a real-time VM: from PoweringOff or Created only),
\* Paused->PoweredOff by shutdown_vm, Paused->Created by reset_vm.
C1_CodeEdgesOnly ==
    [][\A c \in Callers :
          (Steps(c) /\ vm_state' # vm_state) =>
             LET op == loc'[c].op
                 pausing == /\ vm_state' = "VM_PAUSED"
                            /\ is_rt_vm => vm_state \in {"VM_POWERING_OFF", "VM_CREATED"}
             IN \/ op = "create_vm" /\ vm_state = "VM_POWERED_OFF" /\ vm_state' = "VM_CREATED"
                \/ op \in {"start_vm", "resume_vm_from_s3"} /\ vm_state' = "VM_STARTED"
                \/ op = "pause_vm" /\ pausing
                \/ op = "shutdown_vm" /\ pc[c] = "idle" /\ pausing
                \/ op = "shutdown_vm" /\ pc[c] = "sd_check"
                      /\ vm_state = "VM_PAUSED" /\ vm_state' = "VM_POWERED_OFF"
                \/ op = "reset_vm" /\ vm_state = "VM_PAUSED" /\ vm_state' = "VM_CREATED"
                \/ op = "prepare_vm" /\ pc[c] = "idle"
                      /\ vm_state = "VM_POWERED_OFF" /\ vm_state' = "VM_CREATED"
                \/ op = "prepare_vm" /\ pc[c] = "pv_created" /\ vm_state' = "VM_STARTED"]_vars

\* pause_vm has moved a PoweredOff VM to Paused.
C1_Witness ==
    \E c \in Callers : /\ Returned(c, "pause_vm")
                       /\ loc[c].entry_state = "VM_POWERED_OFF"
                       /\ vm_state = "VM_PAUSED"

----------------------------------------------------------------------------
(* C2 *)

\* C2: shutdown_vm on a real-time VM that is Started returns -EINVAL, and no
\* step of it changes the VM state, a vCPU, the offline requests or the
\* resources the VM holds.
C2_ShutdownStartedRt ==
    [][\A c \in Callers :
          LET entered == pc[c] = "idle" /\ pc'[c] = "sd_check"
                         /\ vm_state = "VM_STARTED" /\ is_rt_vm
              inside == InShutdown(c) /\ Steps(c)
                        /\ loc[c].entry_state = "VM_STARTED" /\ loc[c].entry_rt
          IN /\ (entered \/ inside) =>
                   UNCHANGED <<vm_state, vcpus, need_offline, pcpu_active, owned, guest_flags>>
             /\ inside => pc'[c] = "ret" /\ loc'[c].ret = "-EINVAL"]_vars

\* shutdown_vm has returned from a call on a Started real-time VM with vCPUs.
C2_Witness ==
    \E c \in Callers : /\ Returned(c, "shutdown_vm")
                       /\ loc[c].entry_state = "VM_STARTED"
                       /\ loc[c].entry_rt
                       /\ vm_state = "VM_STARTED"
                       /\ owned = Resources
                       /\ \E k \in DOMAIN vcpus : vcpus[k].state = "VCPU_RUNNING"

----------------------------------------------------------------------------
(* C3 *)

\* C3: reset_vm in a state other than Paused returns an error and changes
\* neither the VM state, a vCPU, the vLAPIC aggregate state nor the
\* secure-world flag; in Paused it returns 0, the state becomes Created and
\* the vLAPIC aggregate state VM_VLAPIC_XAPIC.
C3_Reset ==
    [][\A c \in Callers :
          Calls(c, "reset_vm") =>
             IF vm_state = "VM_PAUSED"
             THEN /\ loc'[c].ret = "0"
                  /\ vm_state' = "VM_CREATED"
                  /\ vlapic_state' = "VM_VLAPIC_XAPIC"
             ELSE /\ loc'[c].ret = "-1"
                  /\ UNCHANGED <<vm_state, vcpus, vlapic_state, sworld_active>>]_vars

\* reset_vm has failed on a Started VM whose vLAPICs are in x2APIC mode and
\* whose secure world is active: there was something to reset.
C3_Witness ==
    \E c \in Callers : /\ Returned(c, "reset_vm")
                       /\ loc[c].ret = "-1"
                       /\ loc[c].entry_state = "VM_STARTED"
                       /\ vlapic_state = "VM_VLAPIC_X2APIC"
                       /\ sworld_active

----------------------------------------------------------------------------
(* C4 *)

\* C4: pause_vm changes nothing when the VM is Paused, nor when a real-time
\* VM is in a state other than PoweringOff and Created; in every other case
\* the VM is Paused and every vCPU is a zombie when it returns.
C4_Pause ==
    [][\A c \in Callers :
          Calls(c, "pause_vm") =>
             IF \/ vm_state = "VM_PAUSED"
                \/ is_rt_vm /\ vm_state \notin {"VM_POWERING_OFF", "VM_CREATED"}
             THEN UNCHANGED <<vm_state, vcpus>>
             ELSE /\ vm_state' = "VM_PAUSED"
                  /\ DOMAIN vcpus' = DOMAIN vcpus
                  /\ \A k \in DOMAIN vcpus' : vcpus'[k].state = "VCPU_ZOMBIE"]_vars

\* pause_vm has paused a real-time VM that was powering off, all its vCPUs.
C4_Witness ==
    \E c \in Callers : /\ Returned(c, "pause_vm")
                       /\ loc[c].entry_rt
                       /\ loc[c].entry_state = "VM_POWERING_OFF"
                       /\ vm_state = "VM_PAUSED"
                       /\ Len(vcpus) = MaxVcpus
                       /\ \A k \in DOMAIN vcpus : vcpus[k].state = "VCPU_ZOMBIE"

----------------------------------------------------------------------------
(* C5 *)

\* C5: a step of shutdown_vm releases a resource of the VM only when every
\* vCPU has been reset and taken offline and wait_pcpus_offline has returned.
C5_ReleaseAfterFence ==
    [][\A c \in Callers :
          (InShutdown(c) /\ Steps(c) /\ owned' # owned) =>
             /\ loc[c].waited
             /\ loc[c].i = Len(vcpus)
             /\ \A k \in DOMAIN vcpus : vcpus[k].state = "VCPU_OFFLINE"]_vars

\* shutdown_vm has released the pass-through entries of a VM with a marked
\* core, after its wait.
C5_Witness ==
    \E c \in Callers : /\ pc[c] = "sd_iommu"
                       /\ loc[c].mask # {}
                       /\ loc[c].waited
                       /\ "ptdev" \notin owned

----------------------------------------------------------------------------
(* C6 *)

\* C6 as stated: a shutdown_vm whose start_pcpus failed ends with the VM
\* PoweredOff, its resources released, and returns -ETIMEDOUT.
C6_StartFailureReported ==
    \A c \in Callers :
       (Returned(c, "shutdown_vm") /\ loc[c].start_failed) =>
          /\ vm_state = "VM_POWERED_OFF"
          /\ owned = {}
          /\ loc[c].ret = "-ETIMEDOUT"

----------------------------------------------------------------------------
(* C7 *)

\* C7: a core inside shutdown_vm eventually returns from it, whatever the
\* marked cores do.
C7_ShutdownReturns ==
    \A c \in Callers : InShutdown(c) ~> Returned(c, "shutdown_vm")

\* The wait of shutdown_vm has ended by its timeout: a marked core is online.
C7_Witness ==
    \E c \in Callers : /\ pc[c] = "sd_start"
                       /\ loc[c].timeout = 0
                       /\ loc[c].mask \cap pcpu_active # {}

----------------------------------------------------------------------------
(* C8 *)

\* C8 as stated: lifecycle calls on the VM never interleave; no core enters
\* one while another core is inside shutdown_vm.
C8_Serialized ==
    [][\A c, d \in Callers :
          (c # d /\ InShutdown(c)) => ~(pc[d] = "idle" /\ pc'[d] # "idle")]_vars

----------------------------------------------------------------------------
(* The carved table *)

\* [b1, e1) and [b2, e2) have an address in common.
Intersects(b1, e1, b2, e2) == b1 < e1 /\ b2 < e2 /\ b1 < e2 /\ b2 < e1

\* The ranges create_sos_vm_e820 takes out: the hypervisor's, then one for
\* each pre-launched VM.
Excluded ==
    <<[start_pa |-> board.hv_start, end_pa |-> board.hv_start + board.hv_size]>>
    \o [k \in 1 .. Len(board.pre) |->
           [start_pa |-> board.pre[k].start_hpa,
            end_pa |-> board.pre[k].start_hpa + board.pre[k].size]]

RamEntries(tbl, n) == {i \in 1 .. n : tbl[i].type = "E820_TYPE_RAM"}

\* The addresses of the platform's RAM.
PlatformRam ==
    {a \in 0 .. MemTop - 1 :
        \E i \in RamEntries(board.e820, Len(board.e820)) :
            /\ board.e820[i].baseaddr <= a
            /\ a < board.e820[i].baseaddr + board.e820[i].length}

\* Every excluded range lies in the platform's RAM and no two of them meet.
ExcludedWithinRam ==
    /\ \A k \in DOMAIN Excluded :
           \A a \in Excluded[k].start_pa .. Excluded[k].end_pa - 1 : a \in PlatformRam
    /\ \A j, k \in DOMAIN Excluded :
           j # k => ~Intersects(Excluded[j].start_pa, Excluded[j].end_pa,
                                Excluded[k].start_pa, Excluded[k].end_pa)

RECURSIVE pre_size(_)
\* The memory sizes of the first n pre-launched VMs, added up.
pre_size(n) == IF n = 0 THEN 0 ELSE pre_size(n - 1) + board.pre[n].size

\* C9: once create_sos_vm_e820 is through, no RAM entry of the service VM's
\* table has an address in the hypervisor's range or in the memory of a
\* pre-launched VM, whatever the platform table and the configuration.
C9_RamAvoidsExcluded ==
    carve_pc = "done" =>
        \A i \in RamEntries(sos_ve820, e820_entry_num) :
            \A k \in DOMAIN Excluded :
                ~Intersects(sos_ve820[i].baseaddr,
                            sos_ve820[i].baseaddr + sos_ve820[i].length,
                            Excluded[k].start_pa, Excluded[k].end_pa)

\* A table carved for two pre-launched VMs, one of whose ranges covered the
\* head of a RAM entry and left its tail as RAM.
C9_Witness ==
    /\ carve_pc = "done"
    /\ Len(board.pre) = MaxPre
    /\ \E i \in RamEntries(sos_ve820, e820_entry_num) :
           /\ i <= Len(board.e820)
           /\ board.e820[i].baseaddr < sos_ve820[i].baseaddr
           /\ sos_ve820[i].length > 0

\* C10 as stated: the RAM of the carved table adds up to the service VM's
\* declared memory size, which is the platform's RAM less the hypervisor's
\* size and the pre-launched VMs' sizes, on every board.
C10_SizeOnEveryBoard ==
    carve_pc = "done" =>
        /\ ram_length(sos_ve820, e820_entry_num) = sos_mem_size
        /\ sos_mem_size = total_mem_size - board.hv_size - pre_size(Len(board.pre))

\* C10 on the boards where it holds: when the hypervisor's range and every
\* pre-launched VM's memory lie in platform RAM and are pairwise disjoint, the
\* RAM of the carved table adds up to the declared memory size, which is the
\* platform's RAM less the hypervisor's size and the pre-launched VMs' sizes.
C10_SizeWhenExcludedWithinRam ==
    (carve_pc = "done" /\ ExcludedWithinRam) =>
        /\ ram_length(sos_ve820, e820_entry_num) = sos_mem_size
        /\ sos_mem_size = total_mem_size - board.hv_size - pre_size(Len(board.pre))

\* A carved table on such a board with two pre-launched VMs, RAM left over
\* and one entry more than the platform's.
C10_Witness ==
    /\ carve_pc = "done"
    /\ ExcludedWithinRam
    /\ Len(board.pre) = MaxPre
    /\ e820_entry_num > Len(board.e820)
    /\ sos_mem_size > 0

----------------------------------------------------------------------------
(* The service VM's address space *)

\* The addresses of the ranges prepare_sos_vm_memmap unmaps.
Unmapped ==
    {a \in 0 .. MemTop - 1 :
        \/ \E k \in DOMAIN Excluded : Excluded[k].start_pa <= a /\ a < Excluded[k].end_pa
        \/ \E k \in DOMAIN epc_secs :
              epc_secs[k].base <= a /\ a < epc_secs[k].base + epc_secs[k].size}

----------------------------------------------------------------------------
(* One exclusion *)

\* A step of create_sos_vm_e820 that calls filter_mem_from_sos_e820 and
\* comes back from it.
FilterStep ==
    /\ carve_pc' = "pre"
    /\ \/ carve_pc = "hv"
       \/ carve_pc = "pre" /\ carve_vm_id < Len(board.pre)

\* The range that step excludes.
FilterRange == IF carve_pc = "hv" THEN Excluded[1] ELSE Excluded[carve_vm_id + 2]

\* The RAM entries of the table that hold the range strictly inside them.
Straddling(s, e) ==
    {i \in RamEntries(sos_ve820, e820_entry_num) :
        /\ sos_ve820[i].baseaddr < s
        /\ e < sos_ve820[i].baseaddr + sos_ve820[i].length}

HasEntry(tbl, n, b, l, t) == \E j \in 1 .. n : tbl[j] = E820Entry(b, l, t)

\* C12 as stated: excluding [s, e) strictly inside a RAM entry [start, end)
\* leaves a RAM entry [start, s), a Reserved entry [s, e) and a RAM entry
\* [e, end).
C12_InteriorBecomesReserved ==
    [][FilterStep =>
          LET s == FilterRange.start_pa
              e == FilterRange.end_pa
          IN \A i \in Straddling(s, e) :
                LET start == sos_ve820[i].baseaddr
                    end == sos_ve820[i].baseaddr + sos_ve820[i].length
                IN /\ HasEntry(sos_ve820', e820_entry_num', start, s - start, "E820_TYPE_RAM")
                   /\ HasEntry(sos_ve820', e820_entry_num', s, e - s, "E820_TYPE_RESERVED")
                   /\ HasEntry(sos_ve820', e820_entry_num', e, end - e, "E820_TYPE_RAM")]_vars

\* C12 as the code has it: excluding [s, e) strictly inside a RAM entry
\* [start, end) turns that entry into the RAM entry [start, s) and appends
\* the RAM entry [e, end) as the table's last; no entry of the table, of
\* whatever type, has an address of [s, e); the original length is the sum
\* of the two lengths and e - s.
C12_InteriorDropped ==
    [][FilterStep =>
          LET s == FilterRange.start_pa
              e == FilterRange.end_pa
          IN \A i \in Straddling(s, e) :
                LET start == sos_ve820[i].baseaddr
                    end == sos_ve820[i].baseaddr + sos_ve820[i].length
                IN /\ sos_ve820'[i] = E820Entry(start, s - start, "E820_TYPE_RAM")
                   /\ e820_entry_num' = e820_entry_num + 1
                   /\ HasEntry(sos_ve820', e820_entry_num', e, end - e, "E820_TYPE_RAM")
                   /\ sos_ve820[i].length
                         = sos_ve820'[i].length + (e - s) + (end - e)
                   /\ \A j \in 1 .. e820_entry_num' :
                         ~Intersects(sos_ve820'[j].baseaddr,
                                     sos_ve820'[j].baseaddr + sos_ve820'[j].length, s, e)]_vars

\* The hypervisor's range has been taken out of the middle of a RAM entry of
\* the platform: the table has an entry more and the entry ends where the
\* hypervisor starts.
C12_Witness ==
    /\ carve_pc = "pre"
    /\ carve_vm_id = 0
    /\ e820_entry_num = Len(board.e820) + 1
    /\ \E i \in RamEntries(sos_ve820, Len(board.e820)) :
           /\ board.e820[i].type = "E820_TYPE_RAM"
           /\ sos_ve820[i].baseaddr + sos_ve820[i].length = board.hv_start
           /\ board.hv_start + board.hv_size
                 < board.e820[i].baseaddr + board.e820[i].length

----------------------------------------------------------------------------
(* Two exclusions in both orders *)

\* The entries in use of a carved table, as a set.
EntrySet(r) == {r.tbl[i] : i \in 1 .. r.count}
RamEntrySet(r) == {en \in EntrySet(r) : en.type = "E820_TYPE_RAM"}

\* Both orders are through and neither ran out of table entries.
BothCarved == order_pc = "both" /\ ~order_ab.fault /\ ~order_ba.fault

\* C13 as stated: the two orders leave the same set of (base, length, type)
\* entries.
C13_SameEntries == BothCarved => EntrySet(order_ab) = EntrySet(order_ba)

\* C13 for the RAM entries: the two orders leave the same set of RAM entries
\* (the Reserved entries they make of RAM may differ).
C13_SameRamEntries == BothCarved => RamEntrySet(order_ab) = RamEntrySet(order_ba)

\* Both orders are through on a table one of whose RAM entries both ranges
\* cut, with RAM left over.
C13_Witness ==
    /\ BothCarved
    /\ RamEntrySet(order_ab) # {}
    /\ \E i \in DOMAIN order_in.tbl :
          LET en == order_in.tbl[i]
          IN /\ en.type = "E820_TYPE_RAM"
             /\ Intersects(en.baseaddr, en.baseaddr + en.length,
                           order_in.a.start_pa, order_in.a.end_pa)
             /\ Intersects(en.baseaddr, en.baseaddr + en.length,
                           order_in.b.start_pa, order_in.b.end_pa)

----------------------------------------------------------------------------
(* The vLAPIC aggregate state *)

\* A step in which a vCPU's vLAPIC changes mode and update_vm_vlapic_state
\* runs: no lifecycle call moves.
UpdateStep ==
    /\ pc' = pc
    /\ loc' = loc
    /\ DOMAIN vcpus' = DOMAIN vcpus
    /\ \E k \in DOMAIN vcpus : vcpus'[k].mode # vcpus[k].mode

\* C14: update_vm_vlapic_state leaves the aggregate state Disabled when no
\* vCPU is in xAPIC or x2APIC mode, X2APIC when one is in x2APIC mode and none
\* in xAPIC mode, XAPIC when one is in xAPIC mode and none in x2APIC mode, and
\* Transition when both modes are there; vCPUs in Disabled mode count for
\* nothing unless all are.
C14_Classification ==
    [][UpdateStep =>
          LET x2 == \E k \in DOMAIN vcpus' : vcpus'[k].mode = "X2APIC"
              x == \E k \in DOMAIN vcpus' : vcpus'[k].mode = "XAPIC"
          IN /\ (~x2 /\ ~x) => vlapic_state' = "VM_VLAPIC_DISABLED"
             /\ (x2 /\ ~x) => vlapic_state' = "VM_VLAPIC_X2APIC"
             /\ (x /\ ~x2) => vlapic_state' = "VM_VLAPIC_XAPIC"
             /\ (x /\ x2) => vlapic_state' = "VM_VLAPIC_TRANSITION"]_vars

\* The aggregate state is X2APIC with one vLAPIC in x2APIC mode and another
\* disabled.
C14_Witness ==
    /\ vlapic_state = "VM_VLAPIC_X2APIC"
    /\ \E j, k \in DOMAIN vcpus : vcpus[j].mode = "X2APIC" /\ vcpus[k].mode = "DISABLED"

----------------------------------------------------------------------------
(* A vCPU that cannot be created *)

\* create_vm, alone or inside prepare_vm, runs on core c and fails after
\* vm->state = VM_CREATED: a prepare_vcpu of its loop failed.
VcpuCreationFails(c) ==
    /\ pc[c] = "idle"
    /\ \/ pc'[c] = "ret" /\ loc'[c].op = "create_vm"
       \/ pc'[c] = "pv_created" /\ loc'[c].op = "prepare_vm"
    /\ loc'[c].ret # "0"
    /\ vm_state' # "VM_POWERED_OFF"

\* C15: when prepare_vcpu fails for a vCPU of the configuration, create_vm
\* returns the failure, the VM is Created, its vCPUs are the ones created
\* before the failure, all in their initial state, and what prepare_vm does
\* after a create_vm that failed starts neither the VM nor a vCPU.
C15_VcpuFailureStopsCreation ==
    [][\A c \in Callers :
          /\ VcpuCreationFails(c) =>
                /\ vm_state' = "VM_CREATED"
                /\ Len(vcpus') = loc'[c].i
                /\ \A k \in DOMAIN vcpus' : vcpus'[k].state = "VCPU_INIT"
          /\ (pc[c] = "pv_created" /\ pc'[c] = "ret" /\ loc[c].ret # "0") =>
                UNCHANGED <<vm_state, vcpus>>]_vars

\* prepare_vm has come back from a create_vm whose second prepare_vcpu
\* failed: the VM is Created with one vCPU.
C15_Witness ==
    \E c \in Callers : /\ Returned(c, "prepare_vm")
                       /\ loc[c].ret = "-1"
                       /\ loc[c].i = 1
                       /\ vm_state = "VM_CREATED"
                       /\ Len(vcpus) = 1

----------------------------------------------------------------------------
(* Teardown *)

\* The resource a release statement of shutdown_vm gives back.
ReleasedAt(st) ==
    IF st = "sd_ptdev" THEN "ptdev" ELSE IF st = "sd_iommu" THEN "iommu" ELSE "ept"

\* C16: on a VM that create_vm gave vCPUs, shutdown_vm releases a resource
\* only if no shutdown_vm released it since that create_vm: between two
\* create_vm the teardown runs at most once, also when shutdown_vm is called
\* on a PoweredOff VM.
C16_TeardownOncePerCreate ==
    [][\A c \in Callers :
          (/\ pc[c] \in {"sd_ptdev", "sd_iommu", "sd_ept"}
           /\ pc'[c] # pc[c]
           /\ vcpus # << >>) =>
             ReleasedAt(pc[c]) \in owned]_vars

----------------------------------------------------------------------------
(* The cores a shutdown marks *)

\* The physical cores of the vCPUs with LAPIC pass-through enabled.
PtCores == {pcpu_id(k) : k \in {j \in DOMAIN vcpus : is_lapic_pt_enabled(vcpus[j])}}

\* C17: when shutdown_vm reaches its wait, the VM is PoweredOff, every vCPU
\* has been reset and then taken offline, and the cores it marked and waits
\* on are exactly those of the vCPUs with LAPIC pass-through enabled: the
\* core of no other vCPU is among them.
C17_ShutdownMarksPtCores ==
    \A c \in Callers :
        pc[c] = "sd_wait" =>
            /\ vm_state = "VM_POWERED_OFF"
            /\ \A k \in DOMAIN vcpus :
                  vcpus[k].state = "VCPU_OFFLINE" /\ vcpus[k].mode = "XAPIC"
            /\ loc[c].mask = PtCores

\* shutdown_vm waits on the core of the one pass-through vCPU of a VM with
\* two vCPUs.
C17_Witness ==
    \E c \in Callers : /\ pc[c] = "sd_wait"
                       /\ Len(vcpus) = MaxVcpus
                       /\ loc[c].mask # {}
                       /\ \E k \in DOMAIN vcpus : ~is_lapic_pt_enabled(vcpus[k])

----------------------------------------------------------------------------
(* The five cases *)

\* What one exclusion of [s, e) makes of the entry en of the table.
FiveCases(en, s, e) ==
    LET start == en.baseaddr
        end == en.baseaddr + en.length
    IN IF en.type # "E820_TYPE_RAM" \/ ~Intersects(start, end, s, e) THEN en
       ELSE IF s <= start /\ end <= e THEN E820Entry(start, end - start, "E820_TYPE_RESERVED")
       ELSE IF start < s /\ end <= e THEN E820Entry(start, s - start, "E820_TYPE_RAM")
       ELSE IF s <= start /\ e < end THEN E820Entry(e, end - e, "E820_TYPE_RAM")
       ELSE E820Entry(start, s - start, "E820_TYPE_RAM")

\* C18: one exclusion of [s, e) leaves every non-RAM entry and every RAM
\* entry disjoint from [s, e) as it was, makes a RAM entry within [s, e)
\* Reserved with the same bounds, ends at s one that overlaps from the left,
\* starts at e one that overlaps from the right, ends at s one that straddles
\* [s, e) and appends the RAM entry [e, end) for it; the number of entries
\* grows by one in the straddling case and not otherwise, and is never above
\* the capacity of the table.
C18_FiveCaseRule ==
    [][/\ e820_entry_num' <= MaxSosE820
       /\ FilterStep =>
             LET s == FilterRange.start_pa
                 e == FilterRange.end_pa
                 n == e820_entry_num
             IN /\ \A i \in 1 .. n : sos_ve820'[i] = FiveCases(sos_ve820[i], s, e)
                /\ IF Straddling(s, e) = {}
                   THEN e820_entry_num' = n
                   ELSE /\ e820_entry_num' = n + 1
                        /\ \E i \in Straddling(s, e) :
                              sos_ve820'[n + 1]
                                 = E820Entry(e, sos_ve820[i].baseaddr + sos_ve820[i].length - e,
                                             "E820_TYPE_RAM")]_vars

\* The memory of the first pre-launched VM has been taken off the end of a
\* RAM entry, with no entry added.
C18_Witness ==
    /\ carve_pc = "pre"
    /\ carve_vm_id = 1
    /\ e820_entry_num = Len(board.e820)
    /\ \E i \in RamEntries(sos_ve820, e820_entry_num) :
          /\ sos_ve820[i].baseaddr + sos_ve820[i].length = board.pre[1].start_hpa
          /\ board.pre[1].start_hpa < board.e820[i].baseaddr + board.e820[i].length
          /\ board.hv_start + board.hv_size <= sos_ve820[i].baseaddr


\* The cores inside the carving of the scratch table sos_ve820.
Carvers == {p \in PCPUs : launch_pc[p].at = "carve"}

\* Every core has left launch_vms.
LaunchDone == \A p \in PCPUs : launch_pc[p].at = "done"

WritesVlapicState(c) ==
    \/ pc[c] = "vl_write" /\ pc'[c] = "idle"
    \/ Calls(c, "reset_vm") /\ loc'[c].ret = "0"
    \/ Calls(c, "create_vm") /\ vm_state' = "VM_CREATED"

\* An aggregate update has scanned the vCPUs and has not written yet.
BetweenScanAndWrite(p) == pc[p] = "vl_write"

\* C20: every write of the vLAPIC aggregate mode (by the aggregate update,
\* reset_vm, create_vm) is made by a core holding vm_lock, and none is made
\* by another core between the scan and the write of an aggregate update.
C20_WrittenUnderLock ==
    [][\A c \in PCPUs :
          WritesVlapicState(c) =>
              /\ vm_lock = c
              /\ \A p \in PCPUs \ {c} : ~BetweenScanAndWrite(p)]_vars


\* No core is inside update_vm_vlapic_state or a lifecycle call, and no vCPU
\* has changed its mode without the update that follows it.
VlapicQuiescent == \A p \in PCPUs : pc[p] = "idle"

PollStep == polls_left' # polls_left

\* Core c leaves make_shutdown_vm_request in this step.
RequestReturns(c) == req_pc[c].at = "ipi" /\ req_pc'[c].at = "idle"

\* C22: a shutdown-VM request posted to a core stays pending until a call of
\* need_shutdown_vm for that core consumes it; that call returns true and
\* clears it, a call finding none pending returns false, and
\* make_shutdown_vm_request signals the target core exactly when it is not
\* the caller's own.
C22_RequestConsumedOnce ==
    /\ [](\A p \in PCPUs : ("NEED_SHUTDOWN_VM" \in pcpu_flag[p]) <=> (posted[p] > 0))
    /\ [][/\ PollStep =>
                LET p == polled'.pcpu_id
                IN /\ polled'.ret = (posted[p] > 0)
                   /\ posted'[p] = 0
                   /\ "NEED_SHUTDOWN_VM" \notin pcpu_flag'[p]
          /\ \A c \in PCPUs :
                RequestReturns(c) =>
                    LET p == req_pc[c].pcpu_id
                    IN /\ (ipis'[p] = ipis[p] + 1) <=> (get_pcpu_id(c) # p)
                       /\ (ipis'[p] = ipis[p]) <=> (get_pcpu_id(c) = p)
                       /\ \A q \in PCPUs \ {p} : ipis'[q] = ipis[q]]_vars

\* A request posted to a core from another core was signalled and consumed,
\* and a later poll of that core has returned false.
C22_Witness ==
    \E p \in PCPUs :
        /\ ipis[p] > 0
        /\ posted[p] = 0
        /\ polled = [pcpu_id |-> p, ret |-> FALSE]
        /\ polls_left <= MaxPolls - 2
        /\ \A c \in PCPUs : req_pc[c].at = "idle"

============================================================================
